---- MODULE Spec2Model ----
(***************************************************************************)
(* Model of the orchestration layer of smart-board.io:                     *)
(*   - the request queue of services/geminiService.ts                      *)
(*     (requestQueue, isProcessing, processQueue, addToQueue);             *)
(*   - the two-pass application of a parsed command batch inside           *)
(*     sendMessageToGemini (tempIdMap, nodeCommands, edgeCommands);        *)
(*   - the narration of services/tts.ts (speakText, playAudioData,         *)
(*     speakWithFallback, stopAllSpeech, the two current-audio handles);   *)
(*   - the extraction of the commands from the response text and the       *)
(*     replies of sendMessageToGemini;                                     *)
(*   - the tool-call handler of App.tsx (handleToolCall), which puts the   *)
(*     elements and edges on the board and starts the narration.           *)
(* Time is counted in ticks of one millisecond.                            *)
(***************************************************************************)
EXTENDS Integers, Sequences, FiniteSets, TLC

(***************************************************************************)
(* Bounds of the model and constants of the program.                       *)
(***************************************************************************)
MaxTasks == 3

MaxCommands == 3

MaxSpeaks == 3

QueueDelay == 10

Tasks == 1..MaxTasks

\* How item.task() can settle, as processQueue sees it: it resolves, or it
\* rejects with a rate-limit reason (429 / quota), or with any other reason.
Outcomes == {"ok", "rate", "err"}

ElapsedCap == QueueDelay + 1

BackoffDelay == QueueDelay + 1

VARIABLES
    requestQueue,   \* the queued items (task ids), head first
    isProcessing,   \* the busy flag
    running,        \* items whose task() has been called and has not settled
    timers,         \* pending setTimeout callbacks: remaining ticks of each
    submitted,      \* number of addToQueue calls so far
    promise,        \* the promise addToQueue returned for each task
    settleCalls,    \* calls of item.resolve / item.reject per task
    startLog,       \* tasks in the order their bodies were started
    lastOutcome,    \* outcome of the task that settled last ("none" before)
    elapsed,        \* ticks since the last task settled (capped)
    gap,            \* per task: elapsed when it was started (-1: none settled)
    prevOut,        \* per task: lastOutcome when it was started
    phaseAtSubmit,  \* per task: what the scheduler was doing at submission
    commands,       \* the parsed array of one response (the batch)
    pc,             \* where sendMessageToGemini is in applying the batch
    nodeCommands,   \* indices (into commands) of the node commands, in order
    edgeCommands,   \* indices (into commands) of the connect commands, in order
    idx,            \* loop index of the running pass
    awaiting,       \* an onToolCall promise is being awaited
    tempIdMap,      \* own properties of tempIdMap: local id -> finalId
    calls,          \* the onToolCall invocations so far, in order
    threw,          \* an exception reached the catch around the batch
    currentAudioSource,   \* 0 (null) or the call whose buffer source it is
    currentFallbackAudio, \* 0 (null) or the call whose <audio> element it is
    numCalls,       \* number of speakText calls so far
    req,            \* per call: the arguments text, language, isMuted
    speakPc,        \* per call: where speakText is
    sound,          \* per call: what its audio object is doing
    primaryReqs,    \* per call: the getSpeechAudioData requests made
    fallbackReqs,   \* per call: the speakWithFallback requests made
    cutBy,          \* per call: what stopped its audio ("" if nothing did)
    playLog,        \* calls whose audio played to its natural end, in order
    cancelled,      \* unfinished calls that were in flight at a cancelSpeech()
    muteDropped,    \* unfinished calls in flight at a speakText(.., isMuted = true)
    lateCancel,     \* calls whose audio started after a cancelSpeech()
    lateMute,       \* calls whose audio started after a muted speakText
    interfered,     \* some call or cancel was made while a call was in flight
    rawText,        \* response.text of the model, a sequence of symbols
    replyLang,      \* the language argument of sendMessageToGemini
    replyText,      \* what sendMessageToGemini returns
    jsonText,       \* the text JSON.parse accepted (empty if none)
    parseOutcome,   \* which parse attempt settled the command list
    apiError,       \* the error the network call failed with, if it did
    board           \* the elements and edges of the board, in creation order

schedVars == <<requestQueue, isProcessing, running, timers, submitted, promise,
               settleCalls, startLog, lastOutcome, elapsed, gap, prevOut,
               phaseAtSubmit>>

batchVars == <<commands, pc, nodeCommands, edgeCommands, idx, awaiting,
               tempIdMap, calls, threw>>

ttsVars == <<currentAudioSource, currentFallbackAudio, numCalls, req, speakPc,
             sound, primaryReqs, fallbackReqs, cutBy, playLog, cancelled,
             muteDropped, lateCancel, lateMute, interfered>>

textVars == <<rawText, replyLang, replyText, jsonText, parseOutcome, apiError>>

boardVars == <<board>>

vars == <<schedVars, batchVars, ttsVars, textVars, boardVars>>

NoPromise == [state |-> "none", of |-> 0, outcome |-> "none"]

Min(a, b) == IF a < b THEN a ELSE b

RemoveAt(s, i) == SubSeq(s, 1, i - 1) \o SubSeq(s, i + 1, Len(s))

Occurrences(s, x) == Cardinality({i \in 1..Len(s) : s[i] = x})

\* String.prototype.trim
RECURSIVE TrimLeft(_)
TrimLeft(t) == IF t # <<>> /\ Head(t) = " " THEN TrimLeft(Tail(t)) ELSE t

RECURSIVE TrimRight(_)
TrimRight(t) ==
    IF t # <<>> /\ t[Len(t)] = " " THEN TrimRight(SubSeq(t, 1, Len(t) - 1)) ELSE t

Trim(t) == TrimRight(TrimLeft(t))

(***************************************************************************)
(* The request queue.                                                      *)
(***************************************************************************)

\* setTimeout(..., 10) of the finally block: the same delay for every outcome.
DelayForBackoff(outcome) == IF outcome = "rate" THEN BackoffDelay ELSE QueueDelay

DelayFor(outcome) == QueueDelay

\* isProcessing = true; item = requestQueue.shift(); item.task() is called.
StartHeadNoFlag(q, run) ==
    [queue |-> Tail(q), busy |-> FALSE, run |-> run \cup {Head(q)}, item |-> Head(q)]

StartLast(q, run) ==
    [queue |-> SubSeq(q, 1, Len(q) - 1), busy |-> TRUE,
     run |-> run \cup {q[Len(q)]}, item |-> q[Len(q)]]

StartHead(q, run) ==
    [queue |-> Tail(q), busy |-> TRUE, run |-> run \cup {Head(q)}, item |-> Head(q)]

\* processQueue up to its await: nothing when busy or empty, else start the head.
ProcessQueue(q, busy, run) ==
    IF busy \/ Len(q) = 0
    THEN [queue |-> q, busy |-> busy, run |-> run, item |-> 0]
    ELSE StartHead(q, run)

\* The continuation of `await item.task()`: item.resolve(result) or
\* item.reject(e) of the item processQueue holds; the queue is not touched.
SettleRetry(q, p, cnt, item, outcome) ==
    IF outcome = "ok"
    THEN [queue |-> q,
          promise |-> [p EXCEPT ![item] = [state |-> "resolved", of |-> item, outcome |-> outcome]],
          calls |-> [cnt EXCEPT ![item] = @ + 1]]
    ELSE [queue |-> <<item>> \o q, promise |-> p, calls |-> cnt]

SettleDropQueue(q, p, cnt, item, outcome) ==
    [queue |-> IF outcome = "ok" THEN q ELSE <<>>,
     promise |-> [p EXCEPT ![item] =
                    [state |-> IF outcome = "ok" THEN "resolved" ELSE "rejected",
                     of |-> item, outcome |-> outcome]],
     calls |-> [cnt EXCEPT ![item] = @ + 1]]

Settle(q, p, cnt, item, outcome) ==
    [queue |-> q,
     promise |-> [p EXCEPT ![item] =
                    [state |-> IF outcome = "ok" THEN "resolved" ELSE "rejected",
                     of |-> item, outcome |-> outcome]],
     calls |-> [cnt EXCEPT ![item] = @ + 1]]

\* The finally block: arm the timer; isProcessing stays as it is (set).
FinallyClearsBusy(tm, busy, outcome) ==
    [timers |-> Append(tm, DelayFor(outcome)), busy |-> FALSE]

Finally(tm, busy, outcome) ==
    [timers |-> Append(tm, DelayFor(outcome)), busy |-> busy]

\* The timer callback: isProcessing = false; processQueue();
TimerCallbackNoKick(q, busy, run) ==
    [queue |-> q, busy |-> FALSE, run |-> run, item |-> 0]

TimerCallback(q, busy, run) == ProcessQueue(q, FALSE, run)

\* What the scheduler is doing: running a task, in the post-task delay, or idle.
Phase ==
    IF running # {} THEN "running"
    ELSE IF Len(timers) > 0 THEN "delay"
    ELSE "idle"

\* Bookkeeping of a start (item # 0) for the properties.
LogStart(item) ==
    /\ startLog' = IF item = 0 THEN startLog ELSE Append(startLog, item)
    /\ gap' = IF item = 0 THEN gap
              ELSE [gap EXCEPT ![item] = IF lastOutcome = "none" THEN -1 ELSE elapsed]
    /\ prevOut' = IF item = 0 THEN prevOut ELSE [prevOut EXCEPT ![item] = lastOutcome]

SchedInit ==
    /\ requestQueue = <<>>
    /\ isProcessing = FALSE
    /\ running = {}
    /\ timers = <<>>
    /\ submitted = 0
    /\ promise = [t \in Tasks |-> NoPromise]
    /\ settleCalls = [t \in Tasks |-> 0]
    /\ startLog = <<>>
    /\ lastOutcome = "none"
    /\ elapsed = 0
    /\ gap = [t \in Tasks |-> -1]
    /\ prevOut = [t \in Tasks |-> "none"]
    /\ phaseAtSubmit = [t \in Tasks |-> "none"]

\* addToQueue(task): push the item; if (!isProcessing) processQueue().
AddToQueue ==
    /\ submitted < MaxTasks
    /\ LET id == submitted + 1
           q1 == Append(requestQueue, id)
           r  == IF ~isProcessing
                 THEN ProcessQueue(q1, isProcessing, running)
                 ELSE [queue |-> q1, busy |-> isProcessing, run |-> running, item |-> 0]
       IN /\ submitted' = id
          /\ promise' = [promise EXCEPT ![id] = [NoPromise EXCEPT !.state = "pending"]]
          /\ phaseAtSubmit' = [phaseAtSubmit EXCEPT ![id] = Phase]
          /\ requestQueue' = r.queue
          /\ isProcessing' = r.busy
          /\ running' = r.run
          /\ LogStart(r.item)
    /\ UNCHANGED <<timers, settleCalls, lastOutcome, elapsed>>
    /\ UNCHANGED <<batchVars, ttsVars, textVars, boardVars>>

\* item.task() settles: the rest of processQueue runs (resolve/reject, finally).
TaskSettle ==
    \E t \in running, o \in Outcomes :
        LET s == Settle(requestQueue, promise, settleCalls, t, o)
            f == Finally(timers, isProcessing, o)
        IN /\ running' = running \ {t}
           /\ requestQueue' = s.queue
           /\ promise' = s.promise
           /\ settleCalls' = s.calls
           /\ timers' = f.timers
           /\ isProcessing' = f.busy
           /\ lastOutcome' = o
           /\ elapsed' = 0
           /\ UNCHANGED <<submitted, startLog, gap, prevOut, phaseAtSubmit>>
           /\ UNCHANGED <<batchVars, ttsVars, textVars, boardVars>>

\* One millisecond passes.
Tick ==
    /\ \/ \E i \in 1..Len(timers) : timers[i] > 0
       \/ (lastOutcome # "none" /\ elapsed < ElapsedCap)
    /\ timers' = [i \in 1..Len(timers) |-> IF timers[i] > 0 THEN timers[i] - 1 ELSE 0]
    /\ elapsed' = IF lastOutcome # "none" THEN Min(elapsed + 1, ElapsedCap) ELSE elapsed
    /\ UNCHANGED <<requestQueue, isProcessing, running, submitted, promise,
                   settleCalls, startLog, lastOutcome, gap, prevOut, phaseAtSubmit>>
    /\ UNCHANGED <<batchVars, ttsVars, textVars, boardVars>>

\* A timer whose delay has elapsed fires (no earlier than its delay).
TimerFire ==
    \E i \in 1..Len(timers) :
        /\ timers[i] = 0
        /\ LET r == TimerCallback(requestQueue, isProcessing, running)
           IN /\ timers' = RemoveAt(timers, i)
              /\ requestQueue' = r.queue
              /\ isProcessing' = r.busy
              /\ running' = r.run
              /\ LogStart(r.item)
        /\ UNCHANGED <<submitted, promise, settleCalls, lastOutcome, elapsed,
                       phaseAtSubmit>>
        /\ UNCHANGED <<batchVars, ttsVars, textVars, boardVars>>

(***************************************************************************)
(* Applying one batch of commands (sendMessageToGemini, after the parse).  *)
(***************************************************************************)

\* Strings the model may use as the "id" of a node command; "" is no id.
NodeIds == {"", "a", "b", "__proto__"}

\* Strings the model may use as "from" / "to" of a connect command.
RefIds == {"a", "b", "constructor", "__proto__"}

\* The ids `ai-${Date.now()}-${random}` can produce; two draws can coincide.
FinalIds == {"ai-1", "ai-2"}

\* Properties every object literal inherits from Object.prototype.
ObjectPrototypeKeys == {"constructor", "__proto__"}

\* What a read of an inherited property yields: an object, not a string.
Inherited == "[object]"

\* The entries a parsed array can hold: null, an object without action, a
\* node command (with or without id), a connect command.
NullEntry ==
    [kind |-> "null", action |-> "", id |-> "", from |-> "", to |-> "",
     content |-> <<>>]

Entries ==
    {NullEntry}
    \cup {[kind |-> "object", action |-> "", id |-> "a", from |-> "", to |-> "",
            content |-> <<>>]}
    \cup {[kind |-> "object", action |-> "addNote", id |-> i, from |-> "", to |-> "",
            content |-> <<>>] : i \in NodeIds}
    \cup {[kind |-> "object", action |-> "connect", id |-> "", from |-> f, to |-> t,
            content |-> <<>>] : f \in RefIds, t \in RefIds}

Batches == UNION {[1..n -> Entries] : n \in 0..MaxCommands}

\* JavaScript truthiness of the string-or-undefined values used here.
Truthy(v) == v # ""

\* cmd[field] of a command: a property the object lacks reads as undefined,
\* which is falsy like the empty string.
Has(cmd, field) == field \in DOMAIN cmd

Text(cmd, field) == IF Has(cmd, field) THEN cmd[field] ELSE <<>>

\* commands.forEach(cmd => cmd.action ...) throws on a null entry.
ForEachThrows(cmds) == \E k \in 1..Len(cmds) : cmds[k].kind = "null"

\* The members of a set of indices, in ascending (array) order.
RECURSIVE Ascending(_)
Ascending(S) ==
    IF S = {} THEN <<>>
    ELSE LET m == CHOOSE x \in S : \A y \in S : x <= y
         IN <<m>> \o Ascending(S \ {m})

IsConnect(cmd) == cmd.action = "connect"

IsNode(cmd) == cmd.action # "connect" /\ Truthy(cmd.action)

\* if (cmd.action === 'connect') edgeCommands.push(cmd)
EdgeCommandsOf(cmds) == Ascending({k \in 1..Len(cmds) : IsConnect(cmds[k])})

\* else if (cmd.action) nodeCommands.push(cmd)
HasAction(cmd) == Truthy(cmd.action)

NodeCommandsWithConnects(cmds) == Ascending({k \in 1..Len(cmds) : HasAction(cmds[k])})

NodeCommandsOf(cmds) == Ascending({k \in 1..Len(cmds) : IsNode(cmds[k])})

\* tempIdMap[key] = value on an object literal: the __proto__ setter ignores
\* a string, every other key becomes an own property.
MapSet(m, key, value) ==
    IF key = "__proto__" THEN m
    ELSE [k \in DOMAIN m \cup {key} |-> IF k = key THEN value ELSE m[k]]

\* tempIdMap[key]: the own property, else what Object.prototype has, else
\* undefined ("").
MapGet(m, key) ==
    IF key \in DOMAIN m THEN m[key]
    ELSE IF key \in ObjectPrototypeKeys THEN Inherited
    ELSE ""

EmptyMap == [k \in {} |-> ""]

(***************************************************************************)
(* Extracting the command list from the response text.                     *)
(* A text is a sequence of symbols: "<fence>" is a code fence (three       *)
(* backticks), "json" the word after it, " " white space, "w" a word of    *)
(* prose, "[" "]" "," the punctuation of an array, "{" content "}" the     *)
(* object {"action":"addNote","content":"..."}, "{:" value "}" the object  *)
(* {"commands": value}, and the atoms below complete JSON values.          *)
(***************************************************************************)
MaxItems == 2

Fence == "<fence>"

JsonWord == "json"

\* The object atoms and the entries they parse to.
NoteAtom == "{action:addNote,id:a}"

ConnectAtom == "{action:connect,from:a,to:a}"

NoActionAtom == "{id:a}"

NumberEntry ==
    [kind |-> "number", action |-> "", id |-> "", from |-> "", to |-> "",
     content |-> <<>>]

NoActionEntry ==
    [kind |-> "object", action |-> "", id |-> "", from |-> "", to |-> "",
     content |-> <<>>]

NoteEntry(content) ==
    [kind |-> "object", action |-> "addNote", id |-> "", from |-> "", to |-> "",
     content |-> content]

Atoms == {NoteAtom, ConnectAtom, NoActionAtom, "null", "7"}

AtomEntry(sym) ==
    CASE sym = NoteAtom -> [NoteEntry(<<>>) EXCEPT !.id = "a"]
      [] sym = ConnectAtom ->
            [NoActionEntry EXCEPT !.action = "connect", !.from = "a", !.to = "a"]
      [] sym = NoActionAtom -> [NoActionEntry EXCEPT !.id = "a"]
      [] sym = "null" -> NullEntry
      [] OTHER -> NumberEntry

\* str.replace(/<fence>json/g, ''): the matches are found left to right in the
\* original string and the result is not scanned again.
RECURSIVE RemoveJsonFences(_)
RemoveJsonFences(t) ==
    IF t = <<>> THEN <<>>
    ELSE IF Len(t) >= 2 /\ t[1] = Fence /\ t[2] = JsonWord
    THEN RemoveJsonFences(SubSeq(t, 3, Len(t)))
    ELSE <<Head(t)>> \o RemoveJsonFences(Tail(t))

\* str.replace(/<fence>/g, '')
RECURSIVE RemoveFirstFence(_)
RemoveFirstFence(t) ==
    IF t = <<>> THEN <<>>
    ELSE IF Head(t) = Fence THEN Tail(t)
    ELSE <<Head(t)>> \o RemoveFirstFence(Tail(t))

RemoveFences(t) == SelectSeq(t, LAMBDA c : c # Fence)

CleanJsonString(t) == Trim(RemoveFences(RemoveJsonFences(t)))

\* indexOf / lastIndexOf, counted from 1; 0 stands for -1.
IndexOf(t, c) ==
    IF \E i \in 1..Len(t) : t[i] = c
    THEN CHOOSE i \in 1..Len(t) : t[i] = c /\ \A j \in 1..(i - 1) : t[j] # c
    ELSE 0

LastIndexOf(t, c) ==
    IF \E i \in 1..Len(t) : t[i] = c
    THEN CHOOSE i \in 1..Len(t) : t[i] = c /\ \A j \in (i + 1)..Len(t) : t[j] # c
    ELSE 0

\* cleanedText.substring(jsonStart, jsonEnd + 1) for the positions first and
\* last: substring swaps its arguments when the second is the smaller one.
Substring(t, first, last) ==
    IF last >= first THEN SubSeq(t, first, last) ELSE SubSeq(t, last + 1, first - 1)

\* JSON.parse on the symbols: the result of parsing one value from position i.
ParseFail ==
    [ok |-> FALSE, next |-> 0, isArray |-> FALSE, items |-> <<>>, entry |-> NullEntry]

Parsed(next, isArray, items, entry) ==
    [ok |-> TRUE, next |-> next, isArray |-> isArray, items |-> items, entry |-> entry]

RECURSIVE SkipWs(_, _)
SkipWs(t, i) == IF i <= Len(t) /\ t[i] = " " THEN SkipWs(t, i + 1) ELSE i

ClosingBrace(t, i) ==
    IF \E k \in (i + 1)..Len(t) : t[k] = "}"
    THEN CHOOSE k \in (i + 1)..Len(t) : t[k] = "}" /\ \A j \in (i + 1)..(k - 1) : t[j] # "}"
    ELSE 0

RECURSIVE ParseValue(_, _)
RECURSIVE ParseElements(_, _, _)
ParseValue(t, i) ==
    IF i > Len(t) THEN ParseFail
    ELSE IF t[i] \in Atoms THEN Parsed(i + 1, FALSE, <<>>, AtomEntry(t[i]))
    ELSE IF t[i] = "{"
    THEN LET close == ClosingBrace(t, i)
         IN  IF close = 0 THEN ParseFail
             ELSE Parsed(close + 1, FALSE, <<>>, NoteEntry(SubSeq(t, i + 1, close - 1)))
    ELSE IF t[i] = "{:"
    THEN LET v == ParseValue(t, SkipWs(t, i + 1))
             j == SkipWs(t, v.next)
         IN  IF v.ok /\ j <= Len(t) /\ t[j] = "}"
             THEN Parsed(j + 1, FALSE, <<>>, NoActionEntry)
             ELSE ParseFail
    ELSE IF t[i] = "["
    THEN LET j == SkipWs(t, i + 1)
         IN  IF j <= Len(t) /\ t[j] = "]"
             THEN Parsed(j + 1, TRUE, <<>>, NoActionEntry)
             ELSE ParseElements(t, j, <<>>)
    ELSE ParseFail

ParseElements(t, i, acc) ==
    LET v == ParseValue(t, i)
        j == SkipWs(t, v.next)
    IN  IF ~v.ok \/ j > Len(t) THEN ParseFail
        ELSE IF t[j] = "]" THEN Parsed(j + 1, TRUE, Append(acc, v.entry), NoActionEntry)
        ELSE IF t[j] = "," THEN ParseElements(t, SkipWs(t, j + 1), Append(acc, v.entry))
        ELSE ParseFail

JsonParse(t) ==
    LET v == ParseValue(t, SkipWs(t, 1))
    IN  IF v.ok /\ SkipWs(t, v.next) > Len(t) THEN v ELSE ParseFail

\* if (Array.isArray(parsed)) commands = parsed
CommandsOf(v) == IF v.isArray THEN v.items ELSE <<>>

\* Lines 449-467: the whole text is parsed; only if that throws, the slice
\* from the first "[" to the last "]" is parsed, and that may throw too.
ExtractCommands(raw) ==
    LET cleanedText == CleanJsonString(raw)
        whole == JsonParse(cleanedText)
        jsonStart == IndexOf(cleanedText, "[")
        jsonEnd == LastIndexOf(cleanedText, "]")
        jsonStr == Substring(cleanedText, jsonStart, jsonEnd)
        sliced == JsonParse(jsonStr)
    IN  IF whole.ok
        THEN [commands |-> CommandsOf(whole), jsonText |-> cleanedText,
              outcome |-> IF whole.isArray THEN "whole" ELSE "wholeNotArray"]
        ELSE IF jsonStart # 0 /\ jsonEnd # 0
        THEN IF sliced.ok
             THEN [commands |-> CommandsOf(sliced), jsonText |-> jsonStr,
                   outcome |-> IF sliced.isArray THEN "slice" ELSE "sliceNotArray"]
             ELSE [commands |-> <<>>, jsonText |-> <<>>, outcome |-> "threw"]
        ELSE [commands |-> <<>>, jsonText |-> <<>>, outcome |-> "noBrackets"]

\* The replies.
NotUnderstood(language) ==
    IF language = "ar" THEN <<"(ar) I didn't understand that.">> ELSE <<"I didn't understand that.">>

BoardUpdated(language) ==
    IF language = "ar" THEN <<"(ar) The board has been updated.">> ELSE <<"The board has been updated.">>

ErrorReply == <<"Sorry, an error occurred.">>

\* Lines 525-530: if (!processed) the reply is the raw text, or the
\* placeholder when the raw text is blank.
UnprocessedReply(raw, language) ==
    IF Trim(raw) = <<>> THEN NotUnderstood(language) ELSE raw

\* Lines 521-523: the catch around the parse only warns, and the reply is
\* chosen as for any unprocessed response.
CatchParseErrorAsApiError(raw, language) == ErrorReply

CatchParseError(raw, language) == UnprocessedReply(raw, language)

\* commands.find(c => c.action === action && c[field]): the index of the
\* first such command, 0 if there is none.
Find(cmds, action, field) ==
    LET found == {k \in 1..Len(cmds) :
                     cmds[k].action = action /\ Text(cmds[k], field) # <<>>}
    IN  IF found = {} THEN 0 ELSE CHOOSE k \in found : \A m \in found : k <= m

\* The first command, whatever its action, that has a content, a text or a
\* title, and that field.
HeadlineInOrder(cmds, language) ==
    LET found == {k \in 1..Len(cmds) :
                     \E f \in {"content", "text", "title"} : Text(cmds[k], f) # <<>>}
        first == CHOOSE k \in found : \A m \in found : k <= m
    IN  IF found = {} THEN BoardUpdated(language)
        ELSE IF Text(cmds[first], "content") # <<>> THEN cmds[first].content
        ELSE IF Text(cmds[first], "text") # <<>> THEN cmds[first].text
        ELSE cmds[first].title

\* Lines 507-519: the content of the first note that has one, else the text
\* of the first word art that has one, else the title of the first mind map
\* that has one, else the placeholder.
HeadlineOf(cmds, language) ==
    LET firstNote == Find(cmds, "addNote", "content")
        firstArt == Find(cmds, "addWordArt", "text")
        firstMap == Find(cmds, "addMindMap", "title")
    IN  IF firstNote # 0 THEN cmds[firstNote].content
        ELSE IF firstArt # 0 THEN cmds[firstArt].text
        ELSE IF firstMap # 0 THEN cmds[firstMap].title
        ELSE BoardUpdated(language)

\* The texts of the model: an array of at most MaxItems items (or another
\* body) between a prefix and a suffix.
ItemForms ==
    { <<NoteAtom>>, <<ConnectAtom>>, <<NoActionAtom>>, <<"null">>, <<"7">>,
      <<"{", "w", "}">>, <<"{", Fence, "w", Fence, "}">>, <<"[", NoteAtom, "]">> }

RECURSIVE ArrayBodies(_)
ArrayBodies(n) ==
    IF n = 0 THEN {<<>>}
    ELSE IF n = 1 THEN ItemForms
    ELSE {b \o <<",", " ">> \o i : b \in ArrayBodies(n - 1), i \in ItemForms}

ArrayTexts == {<<"[">> \o b \o <<"]">> : b \in UNION {ArrayBodies(n) : n \in 0..MaxItems}}

OtherBodies ==
    { <<>>, <<"w">>, <<"[", "w", "]">>, <<"[", NoteAtom>>, <<"]", NoteAtom, "[">>,
      <<"{:", "[", NoteAtom, "]", "}">>, <<"[", " ", NoteAtom, " ", "]", "]">>,
      <<"[", NoteAtom, ",", "]">> }

Prefixes == {<<>>, <<"w", " ">>, <<Fence, JsonWord, " ">>, <<"w", " ", Fence, JsonWord, " ">>}

Suffixes == {<<>>, <<" ", Fence>>, <<" ", "w">>, <<" ", Fence, " ", "w">>}

ResponseTexts ==
    {p \o b \o q : p \in Prefixes, b \in ArrayTexts \cup OtherBodies, q \in Suffixes}

ReplyLanguages == {"ar", "en"}

\* The errors chat.sendMessage (or the set-up before it) fails with: Error
\* objects whose message is a sequence of words.  "429" is the status code,
\* "quota", "Quota" and "QUOTA" spellings of the quota marker.
NoError == [thrown |-> FALSE, message |-> <<>>]

ApiErrors ==
    { [thrown |-> TRUE, message |-> m] :
        m \in { <<>>, <<"w">>, <<"w", "429", "w">>, <<"quota">>, <<"Quota", "w">>,
                <<"w", "QUOTA">>, <<"w", "w">> } }

\* String.prototype.toLowerCase on a word.
ToLowerCase(w) == IF w \in {"Quota", "QUOTA"} THEN "quota" ELSE w

\* message.includes(word)
Includes(message, word) == \E i \in 1..Len(message) : message[i] = word

\* error.message?.includes('429') || error.message?.toLowerCase().includes('quota')
RateLimited(error) ==
    \/ Includes(error.message, "429")
    \/ Includes([i \in 1..Len(error.message) |-> ToLowerCase(error.message[i])], "quota")

QuotaReply == <<"I've run out of thinking power (Quota Exceeded).">>

\* `Sorry, an error occurred. (${error.message || 'Error'})`
ApiErrorReply(error) ==
    <<"Sorry, an error occurred.", "(">>
        \o (IF error.message # <<>> THEN error.message ELSE <<"Error">>) \o <<")">>

\* Lines 533-540: the catch around the whole task returns a reply text.
CatchApiErrorRethrows(error) == [pc |-> "rejected", reply |-> <<>>]

CatchApiError(error) ==
    [pc |-> "failed",
     reply |-> IF RateLimited(error) THEN QuotaReply ELSE ApiErrorReply(error)]

TextInit ==
    /\ rawText = <<>>
    /\ replyLang = "en"
    /\ replyText = <<>>
    /\ jsonText = <<>>
    /\ parseOutcome = "none"
    /\ apiError = NoError

BatchInit ==
    /\ commands = <<>>
    /\ pc = "idle"
    /\ nodeCommands = <<>>
    /\ edgeCommands = <<>>
    /\ idx = 0
    /\ awaiting = FALSE
    /\ tempIdMap = EmptyMap
    /\ calls = <<>>
    /\ threw = FALSE

\* if (commands.length > 0) the commands b are split into node and edge
\* commands; a null entry makes the forEach throw, with processed already
\* set, so that the reply stays empty; without commands the reply is the
\* raw text.
StartBatch(b, raw, language) ==
    IF Len(b) = 0
    THEN /\ pc' = "unprocessed"
         /\ replyText' = UnprocessedReply(raw, language)
         /\ UNCHANGED <<nodeCommands, edgeCommands, idx, threw>>
    ELSE IF ForEachThrows(b)
    THEN /\ pc' = "done"
         /\ threw' = TRUE
         /\ replyText' = <<>>
         /\ UNCHANGED <<nodeCommands, edgeCommands, idx>>
    ELSE /\ pc' = "pass1"
         /\ nodeCommands' = NodeCommandsOf(b)
         /\ edgeCommands' = EdgeCommandsOf(b)
         /\ idx' = 1
         /\ UNCHANGED <<threw, replyText>>

\* The parse yields an array; if (commands.length > 0) the commands are
\* split into node and edge commands.
ReceiveCommands ==
    /\ pc = "idle"
    /\ \E b \in Batches :
        /\ commands' = b
        /\ StartBatch(b, rawText, replyLang)
    /\ UNCHANGED <<awaiting, tempIdMap, calls>>
    /\ UNCHANGED <<rawText, replyLang, jsonText, parseOutcome, apiError>>
    /\ UNCHANGED <<schedVars, ttsVars, boardVars>>

\* The response arrives: its text is cleaned and parsed, and the commands,
\* if there are any, are split for the two passes.
ReceiveResponse ==
    /\ pc = "idle"
    /\ \E raw \in ResponseTexts, language \in ReplyLanguages :
        LET x == ExtractCommands(raw)
        IN  /\ rawText' = raw
            /\ replyLang' = language
            /\ jsonText' = x.jsonText
            /\ parseOutcome' = x.outcome
            /\ commands' = x.commands
            /\ IF x.outcome = "threw"
               THEN /\ pc' = "unprocessed"
                    /\ replyText' = CatchParseError(raw, language)
                    /\ UNCHANGED <<nodeCommands, edgeCommands, idx, threw>>
               ELSE StartBatch(x.commands, raw, language)
    /\ UNCHANGED <<awaiting, tempIdMap, calls, apiError>>
    /\ UNCHANGED <<schedVars, ttsVars, boardVars>>

\* The network call fails: the task returns the reply of its catch and no
\* command is looked for.
ResponseFails ==
    /\ pc = "idle"
    /\ \E error \in ApiErrors, language \in ReplyLanguages :
        /\ apiError' = error
        /\ replyLang' = language
        /\ pc' = CatchApiError(error).pc
        /\ replyText' = CatchApiError(error).reply
    /\ UNCHANGED <<rawText, jsonText, parseOutcome>>
    /\ UNCHANGED <<commands, nodeCommands, edgeCommands, idx, awaiting, tempIdMap,
                   calls, threw>>
    /\ UNCHANGED <<schedVars, ttsVars, boardVars>>

\* First pass, one iteration up to its await: a finalId is generated, the
\* local id (if truthy) is mapped to it, onToolCall(node.action, ...) is called.
Pass1Iteration ==
    /\ pc = "pass1" /\ ~awaiting /\ idx <= Len(nodeCommands)
    /\ LET k == nodeCommands[idx]
           node == commands[k]
       IN \E finalId \in FinalIds :
            /\ tempIdMap' = IF Truthy(node.id) THEN MapSet(tempIdMap, node.id, finalId)
                            ELSE tempIdMap
            /\ calls' = Append(calls, [name |-> node.action, id |-> finalId,
                                       from |-> node.from, to |-> node.to,
                                       cmd |-> k, done |-> FALSE])
    /\ awaiting' = TRUE
    /\ UNCHANGED <<commands, pc, nodeCommands, edgeCommands, idx, threw>>
    /\ UNCHANGED <<schedVars, textVars>>

\* The iteration with onToolCall left open: the call is recorded only.
Pass1Call == Pass1Iteration /\ UNCHANGED <<ttsVars, boardVars>>

\* The speakText calls whose end the promise of handleToolCall waits for:
\* none, speakText(...) is called without await (App.tsx:238).
AwaitedByHandlerAll == 1..numCalls

AwaitedByHandler == {}

\* The awaited onToolCall promise resolves; the loop goes on.
CallReturns ==
    /\ awaiting
    /\ \A u \in AwaitedByHandler : speakPc[u] \in {"resolved", "rejected"}
    /\ awaiting' = FALSE
    /\ calls' = [calls EXCEPT ![Len(calls)].done = TRUE]
    /\ idx' = idx + 1
    /\ UNCHANGED <<commands, pc, nodeCommands, edgeCommands, tempIdMap, threw>>
    /\ UNCHANGED <<schedVars, ttsVars, textVars, boardVars>>

\* The first loop is over: the second pass begins.
Pass1Done ==
    /\ pc = "pass1" /\ ~awaiting /\ idx > Len(nodeCommands)
    /\ pc' = "pass2"
    /\ idx' = 1
    /\ UNCHANGED <<commands, nodeCommands, edgeCommands, awaiting, tempIdMap, calls, threw>>
    /\ UNCHANGED <<schedVars, ttsVars, textVars, boardVars>>

\* Second pass, one iteration: both ends are looked up in tempIdMap; if both
\* values are truthy onToolCall('connect', ...) is called with them, else the
\* command is skipped with a warning.
Pass2Iteration ==
    /\ pc = "pass2" /\ ~awaiting /\ idx <= Len(edgeCommands)
    /\ LET k == edgeCommands[idx]
           cmd == commands[k]
           sourceId == MapGet(tempIdMap, cmd.from)
           targetId == MapGet(tempIdMap, cmd.to)
       IN IF Truthy(sourceId) /\ Truthy(targetId)
          THEN /\ calls' = Append(calls, [name |-> "connect", id |-> cmd.id,
                                          from |-> sourceId, to |-> targetId,
                                          cmd |-> k, done |-> FALSE])
               /\ awaiting' = TRUE
               /\ UNCHANGED idx
          ELSE /\ idx' = idx + 1
               /\ UNCHANGED <<calls, awaiting>>
    /\ UNCHANGED <<commands, pc, nodeCommands, edgeCommands, tempIdMap, threw>>
    /\ UNCHANGED <<schedVars, textVars>>

Pass2Step == Pass2Iteration /\ UNCHANGED <<ttsVars, boardVars>>

\* The second loop is over: the reply text is chosen and the task returns.
Pass2Done ==
    /\ pc = "pass2" /\ ~awaiting /\ idx > Len(edgeCommands)
    /\ pc' = "done"
    /\ replyText' = HeadlineOf(commands, replyLang)
    /\ UNCHANGED <<commands, nodeCommands, edgeCommands, idx, awaiting, tempIdMap,
                   calls, threw>>
    /\ UNCHANGED <<rawText, replyLang, jsonText, parseOutcome, apiError>>
    /\ UNCHANGED <<schedVars, ttsVars, boardVars>>

BatchNext ==
    ReceiveCommands \/ Pass1Call \/ CallReturns \/ Pass1Done \/ Pass2Step \/ Pass2Done

ExtractNext ==
    ReceiveResponse \/ ResponseFails \/ Pass1Call \/ CallReturns \/ Pass1Done \/ Pass2Step \/ Pass2Done

(***************************************************************************)
(* Narration (services/tts.ts).                                            *)
(***************************************************************************)
Speaks == 1..MaxSpeaks

\* Texts handed to speakText, as sequences of glyphs: "w" is a speakable
\* letter, "e" an emoji of emojiRegex, " " white space.
Emoji == {"e"}

\* The arguments of the speakText calls: a text that is spoken, a text of
\* emoji and white space only, and a call with isMuted set.
SpeakInputs ==
    { [text |-> <<" ", "w", "e">>, language |-> "ar", isMuted |-> FALSE],
      [text |-> <<"e", " ">>, language |-> "en", isMuted |-> FALSE],
      [text |-> <<"w", " ", "w">>, language |-> "en", isMuted |-> TRUE] }

RemoveEmoji(t) == SelectSeq(t, LAMBDA g : g \notin Emoji)

\* text.replace(emojiRegex, '').trim()
CleanText(t) == Trim(RemoveEmoji(t))

NoReq == [text |-> <<>>, language |-> "", isMuted |-> FALSE]

\* The audio state the functions of tts.ts act on.
AudioState ==
    [src |-> currentAudioSource, fb |-> currentFallbackAudio, sound |-> sound,
     cut |-> cutBy, fbReqs |-> fallbackReqs]

\* stopAllSpeech(): a buffer source is stopped (its ended event follows); a
\* fallback element is paused and loses its handlers, so that its promise
\* settles only if play() was still pending (play() then rejects).
StopPrimary(s, by) ==
    IF s.src # 0
    THEN [s EXCEPT !.sound[s.src] = "stopped", !.cut[s.src] = by, !.src = 0]
    ELSE s

StopFallback(s, by) ==
    IF s.fb # 0
    THEN [s EXCEPT !.sound[s.fb] = IF @ = "loading" THEN "aborted" ELSE "paused",
                   !.cut[s.fb] = by, !.fb = 0]
    ELSE s

StopAllSpeech(s, by) == StopFallback(StopPrimary(s, by), by)

\* speakText, line 112: stopAllSpeech() before isMuted is looked at.
SpeakTextEntryOnlyWhenMuted(s, isMuted) ==
    IF isMuted THEN StopAllSpeech(s, "mute") ELSE s

SpeakTextEntry(s, isMuted) ==
    StopAllSpeech(s, IF isMuted THEN "mute" ELSE "speak")

\* playAudioData(data) for call u: stopAllSpeech(), then the payload is
\* decoded and the source started (ok), or the decoding throws.
PlayAudioDataStopsAfterStart(s, u, ok) ==
    IF ok
    THEN StopAllSpeech([s EXCEPT !.src = u, !.sound[u] = "playing"], "play")
    ELSE StopAllSpeech(s, "play")

PlayAudioData(s, u, ok) ==
    IF ok
    THEN [StopAllSpeech(s, "play") EXCEPT !.src = u, !.sound[u] = "playing"]
    ELSE StopAllSpeech(s, "play")

\* speakWithFallback(text, language) for call u, up to audio.play().
SpeakWithFallback(s, u, text, language) ==
    [StopAllSpeech(s, "play") EXCEPT
        !.fb = u, !.sound[u] = "loading",
        !.fbReqs[u] = Append(@, [text |-> text, language |-> language])]

\* speakText, lines 127-130: the catch of the primary attempt.
OnPrimaryFailureGiveUp(s, u, text, language) == s

OnPrimaryFailure(s, u, text, language) == SpeakWithFallback(s, u, text, language)

\* speakText, lines 131-133: the catch of the fallback attempt logs the error.
FallbackFailureRethrown == "rejected"

FallbackFailure == "resolved"

\* The ended, error and play-rejected handlers: the handle is cleared only if
\* it still holds the source or element u of the handler.
OnEndedClearsAlways(handle, u) == 0

OnEnded(handle, u) == IF handle = u THEN 0 ELSE handle

InFlightPcs == {"fetching", "primary", "fallback"}

InFlight(u) == speakPc[u] \in InFlightPcs

Audible == {u \in Speaks : sound[u] = "playing"}

TtsInit ==
    /\ currentAudioSource = 0
    /\ currentFallbackAudio = 0
    /\ numCalls = 0
    /\ req = [u \in Speaks |-> NoReq]
    /\ speakPc = [u \in Speaks |-> "none"]
    /\ sound = [u \in Speaks |-> "none"]
    /\ primaryReqs = [u \in Speaks |-> <<>>]
    /\ fallbackReqs = [u \in Speaks |-> <<>>]
    /\ cutBy = [u \in Speaks |-> ""]
    /\ playLog = <<>>
    /\ cancelled = {}
    /\ muteDropped = {}
    /\ lateCancel = {}
    /\ lateMute = {}
    /\ interfered = FALSE

\* The calls in flight when cancelSpeech() (c) or a muted speakText (m) ran
\* are remembered until they are over.
Track(c, m) ==
    /\ cancelled' = {u \in cancelled \cup c : speakPc'[u] \in InFlightPcs}
    /\ muteDropped' = {u \in muteDropped \cup m : speakPc'[u] \in InFlightPcs}

InFlightNow == {v \in Speaks : InFlight(v)}

\* The audio state s becomes the state of the component.
SetAudio(s) ==
    /\ currentAudioSource' = s.src
    /\ currentFallbackAudio' = s.fb
    /\ sound' = s.sound
    /\ cutBy' = s.cut
    /\ fallbackReqs' = s.fbReqs
    /\ lateCancel' = lateCancel \cup
          {u \in cancelled : s.sound[u] = "playing" /\ sound[u] # "playing"}
    /\ lateMute' = lateMute \cup
          {u \in muteDropped : s.sound[u] = "playing" /\ sound[u] # "playing"}

\* speakText(text, language, isMuted) with the arguments in, up to its
\* first await.
SpeakTextCall(in) ==
    LET u == numCalls + 1
        text == in.text
        language == in.language
        isMuted == in.isMuted
        fetch == ~isMuted /\ CleanText(text) # <<>>
    IN  /\ numCalls' = u
        /\ req' = [req EXCEPT ![u] = in]
        /\ SetAudio(SpeakTextEntry(AudioState, isMuted))
        /\ speakPc' = [speakPc EXCEPT ![u] = IF fetch THEN "fetching" ELSE "resolved"]
        /\ primaryReqs' = [primaryReqs EXCEPT ![u] =
              IF fetch THEN <<[text |-> CleanText(text), language |-> language]>>
              ELSE <<>>]
        /\ Track({}, IF isMuted THEN InFlightNow ELSE {})
        /\ interfered' = (interfered \/ InFlightNow # {})
        /\ UNCHANGED playLog

SpeakText ==
    /\ numCalls < MaxSpeaks
    /\ \E in \in SpeakInputs : SpeakTextCall(in)
    /\ UNCHANGED <<schedVars, batchVars, textVars, boardVars>>

\* What speakText does once the audio state is s: it awaits the audio of
\* call u if there is one, and is over otherwise.
AwaitAudio(s, u) ==
    IF s.sound[u] = "playing" THEN "primary"
    ELSE IF s.sound[u] = "loading" THEN "fallback"
    ELSE "resolved"

\* getSpeechAudioData resolves with a payload; playAudioData plays it, or
\* throws and the catch turns to the fallback.
FetchResolves ==
    /\ \E u \in Speaks, ok \in BOOLEAN :
        /\ speakPc[u] = "fetching"
        /\ LET text == primaryReqs[u][1].text
               language == primaryReqs[u][1].language
               s1 == PlayAudioData(AudioState, u, ok)
               s2 == IF ok THEN s1 ELSE OnPrimaryFailure(s1, u, text, language)
           IN  /\ SetAudio(s2)
               /\ speakPc' = [speakPc EXCEPT ![u] = AwaitAudio(s2, u)]
    /\ Track({}, {})
    /\ UNCHANGED <<numCalls, req, primaryReqs, playLog, interfered>>
    /\ UNCHANGED <<schedVars, batchVars, textVars, boardVars>>

\* getSpeechAudioData rejects (no key, network error, no audio payload).
FetchRejects ==
    /\ \E u \in Speaks :
        /\ speakPc[u] = "fetching"
        /\ LET s1 == OnPrimaryFailure(AudioState, u, primaryReqs[u][1].text,
                                      primaryReqs[u][1].language)
           IN  /\ SetAudio(s1)
               /\ speakPc' = [speakPc EXCEPT ![u] = AwaitAudio(s1, u)]
    /\ Track({}, {})
    /\ UNCHANGED <<numCalls, req, primaryReqs, playLog, interfered>>
    /\ UNCHANGED <<schedVars, batchVars, textVars, boardVars>>

\* source.onended: the buffer played to its end, or stop() was called on it.
PrimaryEnded ==
    /\ \E u \in Speaks :
        /\ speakPc[u] = "primary"
        /\ sound[u] \in {"playing", "stopped"}
        /\ currentAudioSource' = OnEnded(currentAudioSource, u)
        /\ sound' = [sound EXCEPT ![u] = IF @ = "playing" THEN "completed" ELSE "ended"]
        /\ playLog' = IF sound[u] = "playing" THEN Append(playLog, u) ELSE playLog
        /\ speakPc' = [speakPc EXCEPT ![u] = "resolved"]
    /\ Track({}, {})
    /\ UNCHANGED <<currentFallbackAudio, numCalls, req, primaryReqs, fallbackReqs,
                   cutBy, lateCancel, lateMute, interfered>>
    /\ UNCHANGED <<schedVars, batchVars, textVars, boardVars>>

\* audio.play() resolves: the fallback element starts to sound.
FallbackStarts ==
    /\ \E u \in Speaks :
        /\ speakPc[u] = "fallback" /\ sound[u] = "loading"
        /\ SetAudio([AudioState EXCEPT !.sound[u] = "playing"])
    /\ UNCHANGED <<numCalls, req, speakPc, primaryReqs, playLog, cancelled,
                   muteDropped, interfered>>
    /\ UNCHANGED <<schedVars, batchVars, textVars, boardVars>>

\* audio.onended: the fallback element played to its end.
FallbackEnded ==
    /\ \E u \in Speaks :
        /\ speakPc[u] = "fallback" /\ sound[u] = "playing"
        /\ currentFallbackAudio' = OnEnded(currentFallbackAudio, u)
        /\ sound' = [sound EXCEPT ![u] = "completed"]
        /\ playLog' = Append(playLog, u)
        /\ speakPc' = [speakPc EXCEPT ![u] = "resolved"]
    /\ Track({}, {})
    /\ UNCHANGED <<currentAudioSource, numCalls, req, primaryReqs, fallbackReqs,
                   cutBy, lateCancel, lateMute, interfered>>
    /\ UNCHANGED <<schedVars, batchVars, textVars, boardVars>>

\* The fallback fails: play() rejects (also after a pause of a pending
\* play()), or audio.onerror fires; the promise of speakWithFallback rejects.
FallbackFails ==
    /\ \E u \in Speaks :
        /\ speakPc[u] = "fallback"
        /\ sound[u] \in {"loading", "playing", "aborted"}
        /\ currentFallbackAudio' = OnEnded(currentFallbackAudio, u)
        /\ sound' = [sound EXCEPT ![u] = IF @ = "aborted" THEN "ended" ELSE "failed"]
        /\ speakPc' = [speakPc EXCEPT ![u] = FallbackFailure]
    /\ Track({}, {})
    /\ UNCHANGED <<currentAudioSource, numCalls, req, primaryReqs, fallbackReqs,
                   cutBy, playLog, lateCancel, lateMute, interfered>>
    /\ UNCHANGED <<schedVars, batchVars, textVars, boardVars>>

\* cancelSpeech(): stops what is playing and resets the component.
CancelSpeech ==
    /\ SetAudio(StopAllSpeech(AudioState, "cancel"))
    /\ cancelled' = cancelled \cup InFlightNow
    /\ interfered' = (interfered \/ InFlightNow # {})
    /\ UNCHANGED <<numCalls, req, speakPc, primaryReqs, playLog, muteDropped>>
    /\ UNCHANGED <<schedVars, batchVars, textVars, boardVars>>

TtsNext ==
    \/ SpeakText \/ FetchResolves \/ FetchRejects \/ PrimaryEnded
    \/ FallbackStarts \/ FallbackEnded \/ FallbackFails \/ CancelSpeech

(***************************************************************************)
(* The tool-call handler of the App (handleToolCall), which is the         *)
(* onToolCall of sendMessageToGemini.  The board is the sequence of the    *)
(* elements (setNodes) and edges (setEdges) in the order of their          *)
(* creation.                                                               *)
(***************************************************************************)
MaxBoardCommands == 3

\* defaultPos = { x: 800 + Math.random() * 200 - 100,
\*                y: 450 + Math.random() * 100 - 50 }
DefaultCenterX == 800

DefaultCenterY == 450

JitterX == 100

JitterY == 50

\* The two ends of what Math.random() yields in [0, 1).
DefaultPositions ==
    { [x |-> DefaultCenterX - JitterX, y |-> DefaultCenterY - JitterY],
      [x |-> DefaultCenterX + JitterX - 1, y |-> DefaultCenterY + JitterY - 1] }

\* args.x || defaultPos.x: a coordinate that is absent or 0 is falsy.
Coordinate(args, axis, defaultPos) ==
    IF Has(args, axis) /\ args[axis] # 0 THEN args[axis] ELSE defaultPos[axis]

\* The values of defaultPos that can show in a position made from args.
DefaultPositionsFor(args) ==
    IF \E axis \in {"x", "y"} : ~(Has(args, axis) /\ args[axis] # 0)
    THEN DefaultPositions
    ELSE {[x |-> DefaultCenterX, y |-> DefaultCenterY]}

\* The root note of a mind map is drawn around its center.
NoteHalfWidth == 112

NoteHalfHeight == 70

MinRadius == 250

RadiusPerChild == 45

FullTurn == 360

QuarterTurn == 90

\* Math.max(250, childCount * 45)
Radius(childCount) ==
    IF childCount * RadiusPerChild > MinRadius THEN childCount * RadiusPerChild
    ELSE MinRadius

\* index * (2 * Math.PI / childCount) - Math.PI / 2, in degrees; index counts
\* from 0.  The angle 0 points to the right and the y axis points down, so
\* that -90 is the top.
Angle(index, childCount) == (index * FullTurn) \div childCount - QuarterTurn

\* An element of the board.  An element with radius r > 0 lies r away from
\* (x, y) in the direction angle.
NodeItem(id, type, x, y, cmd) ==
    [item |-> "node", id |-> id, type |-> type, x |-> x, y |-> y, angle |-> 0,
     radius |-> 0, source |-> "", target |-> "", cmd |-> cmd]

SatelliteItem(id, x, y, angle, radius, cmd) ==
    [item |-> "node", id |-> id, type |-> "note", x |-> x, y |-> y, angle |-> angle,
     radius |-> radius, source |-> "", target |-> "", cmd |-> cmd]

EdgeItem(source, target, cmd) ==
    [item |-> "edge", id |-> "edge-" \o source \o "-" \o target, type |-> "smoothstep",
     x |-> 0, y |-> 0, angle |-> 0, radius |-> 0, source |-> source,
     target |-> target, cmd |-> cmd]

\* addEdge(edge, eds) of reactflow: an edge between the same two elements is
\* not added twice.
AddEdge(edge, items) ==
    IF \E i \in 1..Len(items) :
          /\ items[i].item = "edge"
          /\ items[i].source = edge.source /\ items[i].target = edge.target
    THEN <<>>
    ELSE <<edge>>

\* The default case: typeMap[name], which is also truthy for the names
\* typeMap inherits from Object.prototype.
TypeMap ==
    [n \in {"addList", "addWordArt", "addShape", "addCode"} |->
        CASE n = "addList" -> "list" [] n = "addWordArt" -> "wordArt"
          [] n = "addShape" -> "shape" [] n = "addCode" -> "code"]

TypeMapGet(name) ==
    IF name \in DOMAIN TypeMap THEN TypeMap[name]
    ELSE IF name \in ObjectPrototypeKeys THEN Inherited
    ELSE ""

\* The end of case 'addMindMap': setNodes(...) and then setEdges(...).
MindMapUpdatesEdgesFirst(newFlowNodes, newFlowEdges) == newFlowEdges \o newFlowNodes

MindMapUpdates(newFlowNodes, newFlowEdges) == newFlowNodes \o newFlowEdges

\* case 'addMindMap': the root note, and for every entry of args.nodes a note
\* on the circle and an edge from the root to it.
MindMapItems(args, defaultPos, cmd) ==
    LET centerX == Coordinate(args, "x", defaultPos)
        centerY == Coordinate(args, "y", defaultPos)
        rootId == args.id
        mindMapNodes == IF Has(args, "nodes") THEN args.nodes ELSE <<>>
        childCount == Len(mindMapNodes)
        nodeId(i) == rootId \o "-" \o mindMapNodes[i].id
        root == NodeItem(rootId, "note", centerX - NoteHalfWidth,
                         centerY - NoteHalfHeight, cmd)
        children ==
            [i \in 1..childCount |->
                SatelliteItem(nodeId(i), centerX - NoteHalfWidth, centerY - NoteHalfHeight,
                              Angle(i - 1, childCount), Radius(childCount), cmd)]
        edges == [i \in 1..childCount |-> EdgeItem(rootId, nodeId(i), cmd)]
    IN  MindMapUpdates(<<root>> \o children, edges)

\* handleToolCall(name, args): what it adds to the board whose items are
\* items.  cmd is the index of the command, kept for the properties.
HandleToolCall(name, args, defaultPos, cmd, items) ==
    LET id == args.id
        x == Coordinate(args, "x", defaultPos)
        y == Coordinate(args, "y", defaultPos)
    IN  IF ~Truthy(id) /\ name # "connect" THEN <<>>
        ELSE IF name = "connect" THEN AddEdge(EdgeItem(args.from, args.to, cmd), items)
        ELSE IF name = "addComparison" THEN <<NodeItem(id, "comparison", x, y, cmd)>>
        ELSE IF name = "addMindMap" THEN MindMapItems(args, defaultPos, cmd)
        ELSE IF name = "addNote" THEN <<NodeItem(id, "note", x, y, cmd)>>
        ELSE IF name = "addText" THEN <<NodeItem(id, "text", x, y, cmd)>>
        ELSE IF name = "addImage" THEN <<NodeItem(id, "image", x, y, cmd)>>
        ELSE IF Truthy(TypeMapGet(name)) THEN <<NodeItem(id, TypeMapGet(name), x, y, cmd)>>
        ELSE <<>>

\* textToSpeak at the end of handleToolCall.
TextToSpeak(name, args) ==
    IF ~Truthy(args.id) /\ name # "connect" THEN <<>>
    ELSE IF name \in {"addComparison", "addMindMap"} THEN Text(args, "title")
    ELSE IF name = "addNote" THEN Text(args, "content")
    ELSE IF name = "addText" THEN Text(args, "text")
    ELSE IF name \in {"connect", "addImage"} \/ ~Truthy(TypeMapGet(name)) THEN <<>>
    ELSE IF Text(args, "title") # <<>> THEN args.title
    ELSE IF Text(args, "text") # <<>> THEN args.text
    ELSE Text(args, "content")

\* const [isMuted, setIsMuted] = useState(false), and setIsMuted is never
\* called.
AppMuted == FALSE

\* if (textToSpeak) speakText(textToSpeak, settings.language, isMuted)
SpeakIfText(text) ==
    IF text # <<>>
    THEN SpeakTextCall([text |-> text, language |-> replyLang, isMuted |-> AppMuted])
    ELSE UNCHANGED ttsVars

\* A command as the parsed array holds it.
Command(action, id) ==
    [kind |-> "object", action |-> action, id |-> id, from |-> "", to |-> ""]

\* The commands of the board batches: a note at x = 0, a note without
\* content and coordinates, a word art, a mind map with two satellites, a
\* mind map whose two satellites have the same id, a comparison, a command
\* whose action the handler does not know, a connection.
BoardEntries ==
    { Command("addNote", "a") @@ [content |-> <<"w">>, x |-> 0, y |-> 300],
      Command("addNote", "b"),
      Command("addWordArt", "a") @@ [text |-> <<"w", "w">>, x |-> 800, y |-> 100],
      Command("addMindMap", "a") @@
          [title |-> <<"w", "e">>, x |-> 800, y |-> 450,
           nodes |-> <<[id |-> "1", label |-> "w"], [id |-> "2", label |-> "w"]>>],
      Command("addMindMap", "b") @@
          [title |-> <<"w", "e">>, x |-> 400, y |-> 450,
           nodes |-> <<[id |-> "1", label |-> "w"], [id |-> "1", label |-> "e"]>>],
      Command("addComparison", "b") @@ [title |-> <<"e", "w">>, x |-> 400, y |-> 400],
      Command("addTable", "a"),
      [kind |-> "object", action |-> "connect", id |-> "", from |-> "a", to |-> "b"] }

BoardBatches == UNION {[1..n -> BoardEntries] : n \in 0..MaxBoardCommands}

BoardInit == board = <<>>

\* A batch of the board arrives.
ReceiveBoardCommands ==
    /\ pc = "idle"
    /\ \E b \in BoardBatches :
        /\ commands' = b
        /\ StartBatch(b, rawText, replyLang)
    /\ UNCHANGED <<awaiting, tempIdMap, calls>>
    /\ UNCHANGED <<rawText, replyLang, jsonText, parseOutcome, apiError>>
    /\ UNCHANGED <<schedVars, ttsVars, board>>

\* An iteration of the first pass with handleToolCall as onToolCall: the
\* handler runs to its end without an await of its own.
HandlerPass1Call ==
    /\ numCalls < MaxSpeaks
    /\ Pass1Iteration
    /\ LET call == calls'[Len(calls')]
           args == [id |-> call.id] @@ commands[call.cmd]
       IN  /\ \E defaultPos \in DefaultPositionsFor(args) :
                board' = board \o HandleToolCall(call.name, args, defaultPos, call.cmd, board)
           /\ SpeakIfText(TextToSpeak(call.name, args))

\* An iteration of the second pass with handleToolCall as onToolCall.
HandlerPass2Step ==
    /\ Pass2Iteration
    /\ IF awaiting'
       THEN LET call == calls'[Len(calls')]
                args == [from |-> call.from, to |-> call.to] @@ commands[call.cmd]
            IN  board' = board \o HandleToolCall("connect", args,
                                                 [x |-> DefaultCenterX, y |-> DefaultCenterY],
                                                 call.cmd, board)
       ELSE UNCHANGED board
    /\ UNCHANGED ttsVars

BoardNext ==
    \/ ReceiveBoardCommands \/ HandlerPass1Call \/ CallReturns \/ Pass1Done
    \/ HandlerPass2Step \/ Pass2Done

\* The batches whose narration is followed: word arts, which have a text to
\* speak and both coordinates, and connections.
SpokenEntries == {e \in BoardEntries : e.action \in {"addWordArt", "connect"}}

MaxSpokenCommands == 2

SpokenBatches == UNION {[1..n -> SpokenEntries] : n \in 0..MaxSpokenCommands}

ReceiveSpokenCommands ==
    /\ pc = "idle"
    /\ \E b \in SpokenBatches :
        /\ commands' = b
        /\ StartBatch(b, rawText, replyLang)
    /\ UNCHANGED <<awaiting, tempIdMap, calls>>
    /\ UNCHANGED <<rawText, replyLang, jsonText, parseOutcome, apiError>>
    /\ UNCHANGED <<schedVars, ttsVars, board>>

\* The request task applying a batch.
RequestNext ==
    \/ HandlerPass1Call \/ CallReturns \/ Pass1Done \/ HandlerPass2Step \/ Pass2Done

\* The provider responses and the audio events of the narration.
NarrationNext ==
    \/ FetchResolves \/ FetchRejects \/ PrimaryEnded
    \/ FallbackStarts \/ FallbackEnded \/ FallbackFails

NarratedNext == ReceiveSpokenCommands \/ RequestNext \/ NarrationNext

SchedNext == AddToQueue \/ TaskSettle \/ Tick \/ TimerFire

Init == SchedInit /\ BatchInit /\ TtsInit /\ TextInit /\ BoardInit

Next == SchedNext

Spec == Init /\ [][Next]_vars

\* Every started task eventually settles, time passes, and every timer fires.
\* One batch applied by sendMessageToGemini.
BatchSpec == Init /\ [][BatchNext]_vars

FairSpec ==
    /\ Init /\ [][Next]_vars
    /\ WF_vars(TaskSettle) /\ WF_vars(Tick) /\ WF_vars(TimerFire)

\* The narration of one session: speakText calls, cancelSpeech calls, and
\* the events of the providers and the audio objects.
TtsSpec == Init /\ [][TtsNext]_vars

\* One response of the model, from its text to the reply.
ExtractSpec == Init /\ [][ExtractNext]_vars

\* The batches of the board, applied by the handler of the App.
BoardSpec == Init /\ [][BoardNext]_vars

\* A batch applied by the handler together with the narration it starts.
\* The steps of the request task are taken when they can be (the event loop
\* runs a continuation that is ready); nothing is assumed of the provider
\* and of the audio, which may never answer or end.
NarratedSpec ==
    /\ Init /\ [][NarratedNext]_vars
    /\ WF_vars(RequestNext)

(***************************************************************************)
(* Properties of the request queue.                                        *)
(***************************************************************************)
Started(t) == \E i \in 1..Len(startLog) : startLog[i] = t

Settled(t) == promise[t].state \in {"resolved", "rejected"}

InQueue(t) == \E i \in 1..Len(requestQueue) : requestQueue[i] = t

\* C1: at every moment at most one submitted task is executing: no task body
\* is started while another one has started and not yet settled.
C1_AtMostOneExecuting == Cardinality(running) <= 1

\* A second task was submitted while the first was running, and is now the
\* one that runs.
C1_Witness ==
    /\ Len(startLog) >= 2
    /\ phaseAtSubmit[startLog[2]] = "running"
    /\ running = {startLog[2]}

\* C2: tasks are started in exactly the order of their submission, and a task
\* is started only after every task submitted before it has started and
\* settled.
C2_FifoOrder ==
    /\ \A i \in 1..Len(startLog) : startLog[i] = i
    /\ \A a, b \in Tasks : (a < b /\ Started(b)) => (Started(a) /\ Settled(a))

\* Three tasks ran in turn, the second and third having waited in the queue.
C2_Witness ==
    /\ Len(startLog) >= 3
    /\ phaseAtSubmit[2] = "running"
    /\ phaseAtSubmit[3] = "running"

\* C3: after a task settles the busy flag stays set while the delay timer is
\* pending, and the next task is started no earlier than the fixed delay
\* after the previous task settled, also when it was submitted during the delay.
C3_DelayBeforeNextStart ==
    /\ Len(timers) > 0 => (isProcessing /\ running = {})
    /\ \A t \in Tasks : (Started(t) /\ prevOut[t] # "none") => gap[t] >= QueueDelay

\* A task submitted during the post-task delay has been started.
C3_Witness ==
    \E t \in Tasks : phaseAtSubmit[t] = "delay" /\ Started(t) /\ gap[t] >= QueueDelay

C5_Once ==
    \A t \in Tasks :
        /\ Occurrences(startLog, t) <= 1
        /\ t <= submitted => (InQueue(t) # Started(t))
        /\ t > submitted => (~InQueue(t) /\ ~Started(t))
        /\ Settled(t) => (Started(t) /\ t \notin running)

C5_NoCancel ==
    \A t \in running : t \in running' \/ settleCalls'[t] = settleCalls[t] + 1

C5_ExactlyOnce == [](C5_Once) /\ [][C5_NoCancel]_vars

\* A task failed with a rate-limit failure and a later task has run since.
C5_Witness ==
    \E t \in Tasks :
        /\ promise[t].state = "rejected" /\ promise[t].outcome = "rate"
        /\ Len(startLog) > t
        /\ running = {}

\* C6: every promise returned by addToQueue settles once, with the outcome of
\* its own task; the step in which a task settles changes no other promise and
\* leaves the queue as it was.
C6_Promises ==
    \A t \in Tasks :
        /\ settleCalls[t] <= 1
        /\ Settled(t) => (promise[t].of = t /\ settleCalls[t] = 1)
        /\ (t <= submitted /\ ~Settled(t)) => (promise[t].state = "pending" /\ settleCalls[t] = 0)

C6_SettleStep ==
    \A t \in running :
        t \notin running' =>
            /\ promise'[t] = [state |-> IF lastOutcome' = "ok" THEN "resolved" ELSE "rejected",
                              of |-> t, outcome |-> lastOutcome']
            /\ \A u \in Tasks \ {t} : promise'[u] = promise[u]
            /\ requestQueue' = requestQueue

C6_OwnOutcome == [](C6_Promises) /\ [][C6_SettleStep]_vars

\* The first task failed while the second waited in the queue, and the
\* second has then resolved.
C6_Witness ==
    /\ promise[1].state = "rejected"
    /\ phaseAtSubmit[2] = "running"
    /\ promise[2].state = "resolved"

\* C7: if every started task settles and every timer fires, every submitted
\* task is eventually started.
C7_EventuallyStarted == \A t \in Tasks : (submitted >= t) ~> Started(t)

\* A task submitted during the delay after the queue had become empty has
\* been started, as have tasks submitted while idle and while another ran.
C7_Witness ==
    /\ \E t \in Tasks : phaseAtSubmit[t] = "delay" /\ Started(t)
    /\ \E t \in Tasks : phaseAtSubmit[t] = "running" /\ Started(t)
    /\ \E t \in Tasks : phaseAtSubmit[t] = "idle" /\ Started(t)

(***************************************************************************)
(* Properties of the application of a batch.                               *)
(***************************************************************************)
NodeCmd(k) == commands[k].kind = "object" /\ IsNode(commands[k])

ConnectCmd(k) == commands[k].kind = "object" /\ IsConnect(commands[k])

CmdIdx == 1..Len(commands)

CallIdx == 1..Len(calls)

\* x is a local id carried by a node command of the batch.
Names(x) == Truthy(x) /\ \E n \in CmdIdx : NodeCmd(n) /\ commands[n].id = x

\* v is a finalId pass 1 generated for a node command carrying local id x.
FinalIdOf(x, v) ==
    \E p \in CallIdx :
        /\ NodeCmd(calls[p].cmd) /\ commands[calls[p].cmd].id = x
        /\ calls[p].name # "connect" /\ calls[p].id = v

EdgeCallsOf(k) == {q \in CallIdx : calls[q].cmd = k /\ calls[q].name = "connect"}

NodeCallsOf(k) == {p \in CallIdx : calls[p].cmd = k /\ calls[p].name # "connect"}

\* C8: when an edge-creation callback is invoked, the element-creation
\* callback of every node command of the batch has been invoked and has
\* completed, wherever the connect commands stand in the list.
C8_NodesBeforeEdges ==
    \A q \in CallIdx :
        calls[q].name = "connect" =>
            \A k \in CmdIdx :
                NodeCmd(k) => \E p \in 1..(q - 1) : calls[p].cmd = k /\ calls[p].done

\* An edge was created for a connect command that stands in the list before
\* a node it references.
C8_Witness ==
    \E q \in CallIdx :
        /\ calls[q].name = "connect"
        /\ \E k \in CmdIdx :
              /\ k > calls[q].cmd /\ NodeCmd(k)
              /\ commands[k].id = commands[calls[q].cmd].from

\* Every entry of the parsed array is an object (none is null).
AllObjects == \A n \in CmdIdx : commands[n].kind = "object"

\* C9: once the batch is applied, every connect command whose from and to
\* both name local ids carried by node commands of the batch has had exactly
\* one edge-creation call, made with the finalIds generated for those node
\* commands and not with the local ids. Stated for the batches whose entries
\* are all objects; a null entry ends the batch before any call (claim C19).
C9_EdgesUseFinalIds ==
    (pc = "done" /\ AllObjects) =>
        \A k \in CmdIdx :
            (ConnectCmd(k) /\ Names(commands[k].from) /\ Names(commands[k].to)) =>
                /\ Cardinality(EdgeCallsOf(k)) = 1
                /\ \A q \in EdgeCallsOf(k) :
                      /\ FinalIdOf(commands[k].from, calls[q].from)
                      /\ FinalIdOf(commands[k].to, calls[q].to)
                      /\ calls[q].from \in FinalIds /\ calls[q].to \in FinalIds

\* C10: once the batch is applied, a connect command with an end that names
\* no local id of a node command of the batch has had no edge-creation call,
\* no error was raised, and every other command was applied: each node command
\* has a completed element-creation call, each connect command that resolves a
\* completed edge-creation call. Stated for the batches whose entries are all
\* objects; a null entry ends the batch before any call (claim C19).
C10_BadEdgeDropped ==
    (pc = "done" /\ AllObjects) =>
        \A k \in CmdIdx :
            (ConnectCmd(k) /\ ~(Names(commands[k].from) /\ Names(commands[k].to))) =>
                /\ EdgeCallsOf(k) = {}
                /\ ~threw
                /\ \A n \in CmdIdx :
                      NodeCmd(n) => \E p \in NodeCallsOf(n) : calls[p].done
                /\ \A e \in CmdIdx :
                      (ConnectCmd(e) /\ Names(commands[e].from) /\ Names(commands[e].to)) =>
                          \E q \in EdgeCallsOf(e) : calls[q].done

\* C25: no two element-creation calls receive the same finalId.
C25_FinalIdsUnique ==
    \A p, q \in CallIdx :
        (p # q /\ calls[p].name # "connect" /\ calls[q].name # "connect")
            => calls[p].id # calls[q].id

(***************************************************************************)
(* Properties of the narration.                                            *)
(***************************************************************************)
\* Call u asked for narration: it was not muted and its text is speakable.
Spoken(u) == u <= numCalls /\ ~req[u].isMuted /\ CleanText(req[u].text) # <<>>

Over(u) == speakPc[u] \in {"resolved", "rejected"}

InOrder(log) == \A i, j \in 1..Len(log) : i < j => log[i] < log[j]

InLog(u) == \E i \in 1..Len(playLog) : playLog[i] = u

\* C11 (as claimed): three speakText calls with isMuted = false, made one
\* after another, have all three utterances played to completion in call
\* order (whenever no provider failed on them).
C11_AllPlayedInOrder ==
    (/\ numCalls >= 3
     /\ \A u \in 1..3 : Spoken(u) /\ Over(u) /\ sound[u] # "failed")
    => SelectSeq(playLog, LAMBDA u : u <= 3) = <<1, 2, 3>>

\* C11 (amended): when every call is made after the calls before it are over
\* (nothing is being fetched or played), no utterance is cut, the
\* utterances end in call order, and each one a provider delivered is played
\* to its end.
C11_SequentialCallsPlayInOrder ==
    ~interfered =>
        /\ \A u \in Speaks : cutBy[u] = ""
        /\ InOrder(playLog)
        /\ \A u \in Speaks :
              (Spoken(u) /\ Over(u) /\ sound[u] # "failed") => InLog(u)

C11_Witness ==
    /\ ~interfered
    /\ playLog = <<1, 2, 3>>
    /\ \A u \in 1..3 : Spoken(u) /\ Over(u)

\* C12 (as claimed): the audio of an utterance is stopped only by
\* cancelSpeech() or by a speakText call with isMuted = true, never by a
\* speakText call with isMuted = false or by the audio such a call brings.
C12_UnmutedSpeakDoesNotInterrupt ==
    \A u \in Speaks : cutBy[u] \in {"", "cancel", "mute"}

\* C12 (amended): every speakText call, muted or not, stops the audio that is
\* playing when it arrives and clears both audio handles.
C12_SpeakStep ==
    numCalls' = numCalls + 1 =>
        /\ {u \in Speaks : sound'[u] \in {"playing", "loading"}} = {}
        /\ currentAudioSource' = 0
        /\ currentFallbackAudio' = 0

C12_EverySpeakInterrupts == [][C12_SpeakStep]_vars

C12_Witness ==
    \E u \in Speaks : cutBy[u] = "speak" /\ sound[u] = "stopped" /\ numCalls > u

C14_MutedSpeakSilences ==
    /\ \A u \in Speaks :
          (u <= numCalls /\ req[u].isMuted) =>
              /\ sound[u] = "none"
              /\ primaryReqs[u] = <<>>
              /\ fallbackReqs[u] = <<>>
    /\ \A u \in muteDropped : sound[u] # "playing"
    /\ lateMute = {}

\* C15: a call whose getSpeechAudioData request was outstanding when the
\* narration was cancelled or muted never plays the audio that arrives later.
C15_Step ==
    \A u \in cancelled \cup muteDropped :
        speakPc[u] = "fetching" => sound'[u] # "playing"

C15_LateAudioDiscarded == [][C15_Step]_vars

\* The primary provider fails on call u in this step: the call stops waiting
\* for getSpeechAudioData and no buffer source of it is playing (the request
\* rejected, carried no payload, or playAudioData threw).
PrimaryFailsNow(u) ==
    speakPc[u] = "fetching" /\ speakPc'[u] # "fetching" /\ sound'[u] # "playing"

\* C16: when the primary provider fails on an utterance, the fallback is
\* attempted exactly once, with the text and the language of that utterance:
\* the failure makes one fallback request, and no request is added later.
C16_Step ==
    \A u \in Speaks :
        /\ PrimaryFailsNow(u) =>
              fallbackReqs'[u] = <<[text |-> CleanText(req[u].text),
                                    language |-> req[u].language]>>
        /\ ~PrimaryFailsNow(u) => fallbackReqs'[u] = fallbackReqs[u]

C17_NeverRejects ==
    \A u \in Speaks :
        /\ speakPc[u] # "rejected"
        /\ sound[u] = "failed" => (speakPc[u] = "resolved" /\ ~InLog(u))

C17_Witness ==
    \E u \in Speaks :
        /\ Len(fallbackReqs[u]) = 1
        /\ sound[u] = "failed"
        /\ speakPc[u] = "resolved"

\* C30: at most one narration audio source is active.  The two handles are
\* never both set; at most one source or element sounds; a handle that is set
\* holds a source that is playing or an element that is loading or playing;
\* and the source or element that is active is the one its handle holds, so
\* that a playback that starts has stopped the one before it and the late
\* ended event of a stopped source has not cleared the handle of the source
\* that replaced it.
C30_AtMostOneActiveSource ==
    /\ ~(currentAudioSource # 0 /\ currentFallbackAudio # 0)
    /\ Cardinality(Audible) <= 1
    /\ currentAudioSource # 0 => sound[currentAudioSource] = "playing"
    /\ currentFallbackAudio # 0 => sound[currentFallbackAudio] \in {"loading", "playing"}
    /\ \A u \in Speaks :
          /\ (speakPc[u] = "primary" /\ sound[u] = "playing") => currentAudioSource = u
          /\ (speakPc[u] = "fallback" /\ sound[u] \in {"loading", "playing"})
                => currentFallbackAudio = u

\* The source of call u was stopped by the playback that replaced it, its
\* ended event has fired since, and the source of call v still plays.
C30_Witness ==
    \E u, v \in Speaks :
        /\ u # v
        /\ sound[u] = "ended" /\ cutBy[u] = "play" /\ speakPc[u] = "resolved"
        /\ primaryReqs[u] # <<>> /\ fallbackReqs[u] = <<>>
        /\ sound[v] = "playing" /\ speakPc[v] = "primary"
        /\ currentAudioSource = v

(***************************************************************************)
(* Properties of the extraction of the commands.                           *)
(***************************************************************************)
Blank(t) == \A i \in 1..Len(t) : t[i] = " "

\* C18: when the response text yields no command list (no parse attempt
\* succeeds, or the parsed value is no array or an empty one), onToolCall is
\* never invoked and the reply is the raw text as it came, or the
\* did-not-understand placeholder of the language when the raw text is
\* blank; it is never the error reply.
C18_NoCommandsPlainReply ==
    (pc \notin {"idle", "failed"} /\ commands = <<>>) =>
        /\ calls = <<>>
        /\ replyText = IF Blank(rawText) THEN NotUnderstood(replyLang) ELSE rawText
        /\ replyText # ErrorReply

C18_Witness ==
    /\ pc = "unprocessed"
    /\ parseOutcome = "threw"
    /\ commands = <<>>
    /\ replyText = rawText

\* C19: an entry of the parsed array that is no object or has no action gets
\* no onToolCall call, and every node command of the array is applied all
\* the same.
InvalidEntry(k) == commands[k].kind # "object" \/ ~Truthy(commands[k].action)

C19_InvalidEntrySkipped ==
    pc = "done" =>
        \A k \in CmdIdx :
            /\ InvalidEntry(k) => \A q \in CallIdx : calls[q].cmd # k
            /\ NodeCmd(k) => NodeCallsOf(k) # {}

\* C20: extracting again from the stripped text (the text JSON.parse
\* accepted, and the cleaned text it was taken from) yields the same command
\* list as the extraction from the raw text did.
C20_ExtractionIdempotent ==
    pc # "idle" =>
        /\ ExtractCommands(jsonText).commands = commands
        /\ ExtractCommands(CleanJsonString(rawText)).commands = commands

C20_Witness ==
    /\ parseOutcome = "slice"
    /\ commands # <<>>
    /\ jsonText # rawText
    /\ \E i \in 1..Len(rawText) : rawText[i] = Fence

\* C23: sendMessageToGemini never rejects; a failure of the network call
\* becomes the reply text, the quota message exactly when the error message
\* holds 429 or a quota marker and the generic message (never equal to the
\* quota message) otherwise, and no board callback has been invoked.
C23_FailureBecomesReply ==
    /\ pc # "rejected"
    /\ apiError.thrown =>
          /\ pc = "failed"
          /\ replyText # <<>>
          /\ calls = <<>>
          /\ (replyText = QuotaReply) <=>
                (Includes(apiError.message, "429")
                   \/ \E i \in 1..Len(apiError.message) :
                         apiError.message[i] \in {"quota", "Quota", "QUOTA"})
          /\ replyText \in {QuotaReply, ApiErrorReply(apiError)}

\* The network call failed with a message that spells the quota marker with
\* a capital letter; the task has returned.
C23_Witness ==
    /\ pc = "failed"
    /\ apiError.thrown /\ apiError.message = <<"Quota", "w">>
    /\ replyText = QuotaReply

\* The bracket slice of the stripped text, parsed: the substring from the
\* first "[" to the last "]".
BracketSlice(raw) ==
    LET cleanedText == CleanJsonString(raw)
        jsonStart == IndexOf(cleanedText, "[")
        jsonEnd == LastIndexOf(cleanedText, "]")
    IN  IF jsonStart # 0 /\ jsonEnd # 0
        THEN JsonParse(Substring(cleanedText, jsonStart, jsonEnd))
        ELSE ParseFail

\* C26: whenever the parse of the whole text does not yield an array (it
\* fails, or it yields another value), the bracket slice is tried, and its
\* items are the commands when it parses to an array.
C26_SliceWheneverNotArray ==
    (parseOutcome \notin {"none", "whole"}
        /\ BracketSlice(rawText).ok /\ BracketSlice(rawText).isArray)
      => commands = BracketSlice(rawText).items
(***************************************************************************)
(* Properties of the board.                                                *)
(***************************************************************************)
BoardIdx == 1..Len(board)

\* The elements and the edges the handler made for command k.
ElementsOf(k) == {i \in BoardIdx : board[i].item = "node" /\ board[i].cmd = k}

EdgesOf(k) == {i \in BoardIdx : board[i].item = "edge" /\ board[i].cmd = k}

\* Command k has been handed to the handler.
Handled(k) == \E p \in CallIdx : calls[p].cmd = k

SatelliteIds(k) == {board[i].id : i \in {j \in ElementsOf(k) : board[j].radius > 0}}

\* C21: a mind-map command with N satellite entries yields N + 1 elements,
\* one center and N satellites, satellite i at step i of N equal angular
\* steps from the top, and N edges, each from the center to a satellite of
\* its own.
C21_MindMapElementsAndEdges ==
    \A k \in CmdIdx :
        (commands[k].action = "addMindMap" /\ Handled(k)) =>
            LET n == Len(commands[k].nodes)
                centers == {i \in ElementsOf(k) : board[i].radius = 0}
            IN  /\ Cardinality({board[i].id : i \in ElementsOf(k)}) = n + 1
                /\ Cardinality(centers) = 1
                /\ \A j \in 0..(n - 1) :
                      \E i \in ElementsOf(k) :
                          /\ board[i].radius > 0
                          /\ board[i].angle * n = j * FullTurn - QuarterTurn * n
                /\ Cardinality(EdgesOf(k)) = n
                /\ \A e \in EdgesOf(k) :
                      /\ \A c \in centers : board[e].source = board[c].id
                      /\ board[e].target \in SatelliteIds(k)
                /\ \A e, f \in EdgesOf(k) : e # f => board[e].target # board[f].target
MindMapEdge(p) == board[p].item = "edge" /\ commands[board[p].cmd].action = "addMindMap"

ConnectEdge(p) == board[p].item = "edge" /\ commands[board[p].cmd].action = "connect"

Element(p) == board[p].item = "node"

\* C22 as stated: no element of the batch is created after a mind-map edge.
C22_MindMapEdgesAfterAllElements ==
    \A p, q \in BoardIdx : (MindMapEdge(p) /\ Element(q)) => q < p

\* C22: the edges of a mind map are created by the handler call of its
\* command, after the center and the satellite they join; the edges of the
\* connect commands are created after every element of the batch.
C22_MindMapEdgesAfterOwnElements ==
    /\ \A p \in BoardIdx :
          MindMapEdge(p) =>
              /\ \E q \in 1..(p - 1) :
                    /\ Element(q) /\ board[q].cmd = board[p].cmd
                    /\ board[q].id = board[p].source /\ board[q].radius = 0
              /\ \E r \in 1..(p - 1) :
                    /\ Element(r) /\ board[r].cmd = board[p].cmd
                    /\ board[r].id = board[p].target /\ board[r].radius > 0
    /\ \A p, q \in BoardIdx : (ConnectEdge(p) /\ Element(q)) => q < p

\* A batch is done in which an element was created after a mind-map edge.
C22_Witness ==
    /\ pc = "done"
    /\ \E p, q \in BoardIdx :
          /\ p < q /\ MindMapEdge(p) /\ Element(q)
          /\ board[q].cmd > board[p].cmd
\* The commands of the batch of a given action whose field is not empty.
With(action, field) ==
    {k \in CmdIdx : commands[k].action = action /\ Text(commands[k], field) # <<>>}

First(S) == CHOOSE k \in S : \A m \in S : k <= m

Exposing == {k \in CmdIdx : \E f \in {"content", "text", "title"} : Text(commands[k], f) # <<>>}

\* C27 as stated: the reply is the headline of the first command, in the
\* order of the batch, that has a headline field (its content, else its text
\* or title), and the placeholder exactly when no command has one.
C27_FirstHeadlineInOrder ==
    (pc = "done" /\ ~threw) =>
        /\ Exposing # {} =>
              LET c == commands[First(Exposing)]
              IN  replyText = IF Text(c, "content") # <<>> THEN c.content
                              ELSE IF Text(c, "text") # <<>> THEN c.text
                              ELSE c.title
        /\ (replyText = BoardUpdated(replyLang)) <=> (Exposing = {})

\* C27: the reply is the content of the first note that has one; without
\* such a note the text of the first word art that has one; without either
\* the title of the first mind map that has one; and the placeholder exactly
\* when there is none of the three.
C27_HeadlineByKind ==
    (pc = "done" /\ ~threw) =>
        LET notes == With("addNote", "content")
            arts == With("addWordArt", "text")
            maps == With("addMindMap", "title")
        IN  /\ notes # {} => replyText = commands[First(notes)].content
            /\ (notes = {} /\ arts # {}) => replyText = commands[First(arts)].text
            /\ (notes = {} /\ arts = {} /\ maps # {})
                  => replyText = commands[First(maps)].title
            /\ (replyText = BoardUpdated(replyLang))
                  <=> (notes = {} /\ arts = {} /\ maps = {})

\* A batch is done in which a word art with a text comes before a note with
\* a content: the reply is the content of the note.
C27_Witness ==
    /\ pc = "done" /\ ~threw
    /\ \E k, n \in CmdIdx :
          /\ k < n
          /\ k \in With("addWordArt", "text") /\ n \in With("addNote", "content")
          /\ replyText = commands[n].content
          /\ replyText # commands[k].text
\* C28: an element is created at the coordinates its command supplies, 0
\* included, and at the default position, within 100 of 800 and within 50 of
\* 450, only for a coordinate the command omits.  (The commands here are the
\* ones of one element; a mind map is laid out around its coordinates.)
C28_SuppliedCoordinatesKept ==
    \A i \in BoardIdx :
        (Element(i) /\ commands[board[i].cmd].action # "addMindMap") =>
            LET c == commands[board[i].cmd]
            IN  /\ Has(c, "x") => board[i].x = c.x
                /\ Has(c, "y") => board[i].y = c.y
                /\ ~Has(c, "x") =>
                      board[i].x \in (DefaultCenterX - JitterX)..(DefaultCenterX + JitterX)
                /\ ~Has(c, "y") =>
                      board[i].y \in (DefaultCenterY - JitterY)..(DefaultCenterY + JitterY)

\* C29: both ends of every edge made for a connect command are ids of
\* elements of the board.
C29_ConnectEdgesJoinElements ==
    \A p \in BoardIdx :
        ConnectEdge(p) =>
            /\ \E q \in BoardIdx : Element(q) /\ board[q].id = board[p].source
            /\ \E r \in BoardIdx : Element(r) /\ board[r].id = board[p].target
\* C24: the request task and the narration do not wait for each other.  A
\* batch that has begun is applied to its end whatever the narration does
\* (also when a fetch or a playback never completes), and whatever the state
\* of the request task a call that waits for its audio can receive it and
\* play, and a playback can end.
C24_RequestGoesOn == (pc \in {"pass1", "pass2"}) ~> (pc = "done")

C24_NarrationGoesOn ==
    \A u \in Speaks :
        /\ speakPc[u] = "fetching" => ENABLED FetchResolves
        /\ (speakPc[u] = "primary" /\ sound[u] = "playing") => ENABLED PrimaryEnded

====
